---- MODULE Spec2Model ----
(***************************************************************************)
(* Pre-trade risk validation engine (services/RiskManager.ts).             *)
(*                                                                         *)
(* The engine holds one RiskConfig.  validateOrder reads it and returns a  *)
(* RiskCheckResult after six ordered checks; setConfig replaces it.        *)
(* Monetary amounts and quantities are integers here: prices in USD,       *)
(* quantities in whole lots.  A reason string is a record holding the      *)
(* template that built it and exactly the values interpolated into it.     *)
(***************************************************************************)
EXTENDS Integers, Sequences, FiniteSets, TLC

VARIABLES config, args, result, status, history, given,
          portfolio, ticks, isConnected, exchange, abandoned, pending, logs

\* State of the dashboard (App.tsx) around the engine.
appVars == <<portfolio, ticks, isConnected, exchange, abandoned, pending, logs>>

vars == <<config, args, result, status, history, given, appVars>>

(***************************************************************************)
(* Bounds of the input space.                                              *)
(***************************************************************************)
MaxQuantity == 2
MaxHeld == 2
MaxCalls == 3
MaxPending == 2
MaxLots == 28

(***************************************************************************)
(* Limits of the configuration used by runRiskTests.                       *)
(***************************************************************************)
TestMaxPositionSizeUSD == 100000
TestMaxDailyLossPerStrategy == 5000
TestMaxGlobalDailyLoss == 10000
TestMaxOrderValue == 50000
TestMaxExposureUSD == 150000

Side == {"BUY", "SELL"}

Symbols == {"BTC", "ETH", "SCAM"}

Prices == {TestMaxOrderValue, 60000}

Quantities == 1..MaxQuantity

Abs(x) == IF x < 0 THEN -x ELSE x

(***************************************************************************)
(* CorrelationGroup and RiskConfig records.                                *)
(***************************************************************************)
CorrelationGroup(id, name, symbols, maxExposureUSD) ==
    [id |-> id, name |-> name, symbols |-> symbols, maxExposureUSD |-> maxExposureUSD]

CryptoGroup(limit) == CorrelationGroup("CRYPTO", "Crypto Assets", {"BTC", "ETH", "SOL"}, limit)

MajorsGroup(limit) == CorrelationGroup("MAJORS", "Majors", {"BTC"}, limit)

GroupLists ==
    { <<>>,
      <<CryptoGroup(TestMaxExposureUSD)>>,
      <<CryptoGroup(200000)>>,
      <<MajorsGroup(TestMaxPositionSizeUSD), CryptoGroup(TestMaxExposureUSD)>> }

RiskConfig ==
    [ maxPositionSizeUSD : {TestMaxPositionSizeUSD},
      maxDailyLossPerStrategy : {TestMaxDailyLossPerStrategy},
      maxGlobalDailyLoss : {TestMaxGlobalDailyLoss},
      maxOrderValue : {TestMaxOrderValue, 2 * TestMaxOrderValue},
      restrictedSymbols : {{"SCAM"}, {"SCAM", "ETH"}},
      correlationGroups : GroupLists ]

TestConfig ==
    [ maxPositionSizeUSD |-> TestMaxPositionSizeUSD,
      maxDailyLossPerStrategy |-> TestMaxDailyLossPerStrategy,
      maxGlobalDailyLoss |-> TestMaxGlobalDailyLoss,
      maxOrderValue |-> TestMaxOrderValue,
      restrictedSymbols |-> {"SCAM"},
      correlationGroups |-> <<CryptoGroup(TestMaxExposureUSD)>> ]

(***************************************************************************)
(* Position, Strategy and the portfolios handed to validateOrder.  A       *)
(* portfolio has at most one position per symbol; marketValue is the       *)
(* absolute notional at the last tick, which need not be the order price.  *)
(***************************************************************************)
Position(symbol, quantity, averagePrice, marketValue) ==
    [symbol |-> symbol, quantity |-> quantity,
     averagePrice |-> averagePrice, marketValue |-> marketValue]

BtcPositions ==
    { Position("BTC", q, p, Abs(q * p)) : q \in (-MaxHeld)..MaxHeld, p \in Prices }

EthPositions ==
    { Position("ETH", 40, 2500, 100000), Position("ETH", 20, 2500, 50000) }

Optional(S) == {<<>>} \cup { <<x>> : x \in S }

Portfolios == { b \o e : b \in Optional(BtcPositions), e \in Optional(EthPositions) }

Strategy(name, pnl) == [name |-> name, pnl |-> pnl]

Strategies ==
    Optional({ Strategy("MarketMaker_L1", 100),
               Strategy("Momentum_Alpha", -TestMaxDailyLossPerStrategy) })

GlobalPnLs == {0, -TestMaxGlobalDailyLoss, -2 * TestMaxGlobalDailyLoss}

Args ==
    [ symbol : Symbols, side : Side, price : Prices, quantity : Quantities,
      allPositions : Portfolios, strategy : Strategies, globalDailyPnL : GlobalPnLs ]

(***************************************************************************)
(* RiskCheckResult.  Allowed carries no reason field.                      *)
(***************************************************************************)
\* Slip: the approval returned with a reason string.
AllowedWithReason == [allowed |-> TRUE, reason |-> [template |-> "Risk: OK."]]

Allowed == [allowed |-> TRUE]

Denied(reason) == [allowed |-> FALSE, reason |-> reason]

NoResult == [allowed |-> FALSE, reason |-> [template |-> "no call yet"]]

(***************************************************************************)
(* The conditions and computations of validateOrder, in source order.      *)
(***************************************************************************)
\* Slip: the restricted list compared as a whole with the symbol.
IsRestrictedWholeList(cfg, symbol) == cfg.restrictedSymbols = {symbol}

IsRestricted(cfg, symbol) == symbol \in cfg.restrictedSymbols

\* Slip: the quantity left out of the order value.
OrderValuePriceOnly(price, quantity) == price

OrderValue(price, quantity) == price * quantity

\* Slip: inclusive comparison against maxOrderValue.
OrderValueExceedsInclusive(cfg, orderValue) == orderValue >= cfg.maxOrderValue

OrderValueExceeds(cfg, orderValue) == orderValue > cfg.maxOrderValue

\* Slip: strict comparison against the global loss limit.
GlobalLossReachedStrict(cfg, globalDailyPnL) == globalDailyPnL < -cfg.maxGlobalDailyLoss

GlobalLossReached(cfg, globalDailyPnL) == globalDailyPnL <= -cfg.maxGlobalDailyLoss

\* Slip: strict comparison against the strategy loss limit.
StrategyLossReachedStrict(cfg, strategy) ==
    /\ strategy # <<>>
    /\ strategy[1].pnl < -cfg.maxDailyLossPerStrategy

\* Slip: the strategy's loss compared with the global loss limit.
StrategyLossReachedGlobalLimit(cfg, strategy) ==
    /\ strategy # <<>>
    /\ strategy[1].pnl <= -cfg.maxGlobalDailyLoss

StrategyLossReached(cfg, strategy) ==
    /\ strategy # <<>>
    /\ strategy[1].pnl <= -cfg.maxDailyLossPerStrategy

\* allPositions.find(p => p.symbol === symbol): the first match, or <<>>.
RECURSIVE FindPosition(_, _)
FindPosition(allPositions, symbol) ==
    IF allPositions = <<>> THEN <<>>
    ELSE IF Head(allPositions).symbol = symbol THEN <<Head(allPositions)>>
    ELSE FindPosition(Tail(allPositions), symbol)

CurrentQty(allPositions, symbol) ==
    LET currentPos == FindPosition(allPositions, symbol)
    IN  IF currentPos # <<>> THEN currentPos[1].quantity ELSE 0

\* Slip: the side ignored, every order added to the position.
NewQtyAlwaysAdds(currentQty, side, quantity) == currentQty + quantity

NewQty(currentQty, side, quantity) ==
    IF side = "BUY" THEN currentQty + quantity ELSE currentQty - quantity

\* Slip: the signed notional taken as the exposure.
ProjectedExposureSigned(newQty, price) == newQty * price

ProjectedExposure(newQty, price) == Abs(newQty * price)

\* Slip: the comparison of check 5 turned around.
PositionExceedsReversed(cfg, projectedExposure) == projectedExposure < cfg.maxPositionSizeUSD

PositionExceeds(cfg, projectedExposure) == projectedExposure > cfg.maxPositionSizeUSD

\* Slip: the first configured group used when no group holds the symbol.
FindGroupOrFirst(groups, symbol) ==
    LET holding == { i \in DOMAIN groups : symbol \in groups[i].symbols }
    IN  IF groups = <<>> THEN <<>>
        ELSE IF holding = {} THEN <<groups[1]>>
        ELSE <<groups[CHOOSE i \in holding : \A j \in holding : i <= j]>>

\* Slip: the last group holding the symbol used instead of the first.
FindGroupLast(groups, symbol) ==
    LET holding == { i \in DOMAIN groups : symbol \in groups[i].symbols }
    IN  IF holding = {} THEN <<>>
        ELSE <<groups[CHOOSE i \in holding : \A j \in holding : i >= j]>>

\* correlationGroups.find(g => g.symbols.includes(symbol)): first match, or <<>>.
RECURSIVE FindGroup(_, _)
FindGroup(groups, symbol) ==
    IF groups = <<>> THEN <<>>
    ELSE IF symbol \in Head(groups).symbols THEN <<Head(groups)>>
    ELSE FindGroup(Tail(groups), symbol)

\* Slip: the traded symbol's stored market value counted as well.
RECURSIVE GroupExposureWithTraded(_, _, _)
GroupExposureWithTraded(group, allPositions, symbol) ==
    IF allPositions = <<>> THEN 0
    ELSE LET pos == Head(allPositions)
             rest == GroupExposureWithTraded(group, Tail(allPositions), symbol)
         IN  IF pos.symbol \in group.symbols THEN rest + pos.marketValue ELSE rest

\* allPositions.reduce(...): market value of the group's other positions.
RECURSIVE GroupExposure(_, _, _)
GroupExposure(group, allPositions, symbol) ==
    IF allPositions = <<>> THEN 0
    ELSE LET pos == Head(allPositions)
             rest == GroupExposure(group, Tail(allPositions), symbol)
         IN  IF pos.symbol \in group.symbols
             THEN IF pos.symbol = symbol THEN rest ELSE rest + pos.marketValue
             ELSE rest

TotalGroupExposure(group, allPositions, symbol, projectedExposure) ==
    GroupExposure(group, allPositions, symbol) + projectedExposure

\* Slip: inclusive comparison against the group limit.
GroupExceedsInclusive(group, totalGroupExposure) == totalGroupExposure >= group.maxExposureUSD

GroupExceeds(group, totalGroupExposure) == totalGroupExposure > group.maxExposureUSD

(***************************************************************************)
(* The reason strings, one template per check.                             *)
(***************************************************************************)
RestrictedReason(symbol) ==
    [template |-> "Risk: Symbol is restricted.", symbol |-> symbol]

OrderValueReason(orderValue, limit) ==
    [template |-> "Risk: Order value exceeds limit.", value |-> orderValue, limit |-> limit]

GlobalLossReason(limit) ==
    [template |-> "Risk: Global daily loss limit reached. Trading halted.", limit |-> limit]

StrategyLossReason(name, limit) ==
    [template |-> "Risk: Strategy hit daily loss limit.", strategy |-> name, limit |-> limit]

\* Slip: the projected value and the limit interpolated in each other's place.
PositionReasonSwapped(symbol, projectedExposure, limit) ==
    [template |-> "Risk: Projected position exceeds limit.",
     symbol |-> symbol, value |-> limit, limit |-> projectedExposure]

PositionReason(symbol, projectedExposure, limit) ==
    [template |-> "Risk: Projected position exceeds limit.",
     symbol |-> symbol, value |-> projectedExposure, limit |-> limit]

CorrelationReason(name, totalGroupExposure, limit) ==
    [template |-> "Risk: Correlation Limit Breached.",
     group |-> name, value |-> totalGroupExposure, limit |-> limit]

(***************************************************************************)
(* RiskManager.validateOrder.                                              *)
(***************************************************************************)
\* Slip: the group valued at the stored market value of every member,
\* the traded symbol included, plus the value of the order.
CorrelationCheckMarkToMarket(cfg, a, projectedExposure) ==
    LET group == FindGroup(cfg.correlationGroups, a.symbol)
    IN  IF group = <<>> THEN Allowed
        ELSE LET totalGroupExposure ==
                     GroupExposureWithTraded(group[1], a.allPositions, a.symbol)
                     + OrderValue(a.price, a.quantity)
             IN  IF GroupExceeds(group[1], totalGroupExposure)
                 THEN Denied(CorrelationReason(group[1].name, totalGroupExposure,
                                               group[1].maxExposureUSD))
                 ELSE Allowed

\* Slip: an order that reduces the absolute quantity held is let through
\* the group check.
CorrelationCheckExemptsReducing(cfg, a, projectedExposure) ==
    LET group == FindGroup(cfg.correlationGroups, a.symbol)
        currentQty == CurrentQty(a.allPositions, a.symbol)
    IN  IF group = <<>> THEN Allowed
        ELSE IF Abs(NewQty(currentQty, a.side, a.quantity)) < Abs(currentQty) THEN Allowed
        ELSE LET totalGroupExposure ==
                     TotalGroupExposure(group[1], a.allPositions, a.symbol, projectedExposure)
             IN  IF GroupExceeds(group[1], totalGroupExposure)
                 THEN Denied(CorrelationReason(group[1].name, totalGroupExposure,
                                               group[1].maxExposureUSD))
                 ELSE Allowed

CorrelationCheck(cfg, a, projectedExposure) ==
    LET group == FindGroup(cfg.correlationGroups, a.symbol)
    IN  IF group = <<>> THEN Allowed
        ELSE LET totalGroupExposure ==
                     TotalGroupExposure(group[1], a.allPositions, a.symbol, projectedExposure)
             IN  IF GroupExceeds(group[1], totalGroupExposure)
                 THEN Denied(CorrelationReason(group[1].name, totalGroupExposure,
                                               group[1].maxExposureUSD))
                 ELSE Allowed

\* Slip: strategy.pnl read without the null test, which throws a TypeError
\* when no strategy is given.
TypeError == [thrown |-> "TypeError: Cannot read properties of null (reading 'pnl')"]

validateOrderUnguardedStrategy(cfg, a) ==
    LET orderValue == OrderValue(a.price, a.quantity)
        newQty == NewQty(CurrentQty(a.allPositions, a.symbol), a.side, a.quantity)
        projectedExposure == ProjectedExposure(newQty, a.price)
    IN  IF IsRestricted(cfg, a.symbol)
        THEN Denied(RestrictedReason(a.symbol))
        ELSE IF OrderValueExceeds(cfg, orderValue)
        THEN Denied(OrderValueReason(orderValue, cfg.maxOrderValue))
        ELSE IF GlobalLossReached(cfg, a.globalDailyPnL)
        THEN Denied(GlobalLossReason(cfg.maxGlobalDailyLoss))
        ELSE IF a.strategy = <<>>
        THEN TypeError
        ELSE IF StrategyLossReached(cfg, a.strategy)
        THEN Denied(StrategyLossReason(a.strategy[1].name, cfg.maxDailyLossPerStrategy))
        ELSE IF PositionExceeds(cfg, projectedExposure)
        THEN Denied(PositionReason(a.symbol, projectedExposure, cfg.maxPositionSizeUSD))
        ELSE CorrelationCheck(cfg, a, projectedExposure)

\* Slip: the order value check placed before the restricted symbol check.
validateOrderValueFirst(cfg, a) ==
    LET orderValue == OrderValue(a.price, a.quantity)
        newQty == NewQty(CurrentQty(a.allPositions, a.symbol), a.side, a.quantity)
        projectedExposure == ProjectedExposure(newQty, a.price)
    IN  IF OrderValueExceeds(cfg, orderValue)
        THEN Denied(OrderValueReason(orderValue, cfg.maxOrderValue))
        ELSE IF IsRestricted(cfg, a.symbol)
        THEN Denied(RestrictedReason(a.symbol))
        ELSE IF GlobalLossReached(cfg, a.globalDailyPnL)
        THEN Denied(GlobalLossReason(cfg.maxGlobalDailyLoss))
        ELSE IF StrategyLossReached(cfg, a.strategy)
        THEN Denied(StrategyLossReason(a.strategy[1].name, cfg.maxDailyLossPerStrategy))
        ELSE IF PositionExceeds(cfg, projectedExposure)
        THEN Denied(PositionReason(a.symbol, projectedExposure, cfg.maxPositionSizeUSD))
        ELSE CorrelationCheck(cfg, a, projectedExposure)

\* Slip: an order without a strategy approved right after the global check.
validateOrderNullStrategySkipsRest(cfg, a) ==
    LET orderValue == OrderValue(a.price, a.quantity)
        newQty == NewQty(CurrentQty(a.allPositions, a.symbol), a.side, a.quantity)
        projectedExposure == ProjectedExposure(newQty, a.price)
    IN  IF IsRestricted(cfg, a.symbol)
        THEN Denied(RestrictedReason(a.symbol))
        ELSE IF OrderValueExceeds(cfg, orderValue)
        THEN Denied(OrderValueReason(orderValue, cfg.maxOrderValue))
        ELSE IF GlobalLossReached(cfg, a.globalDailyPnL)
        THEN Denied(GlobalLossReason(cfg.maxGlobalDailyLoss))
        ELSE IF a.strategy = <<>>
        THEN Allowed
        ELSE IF StrategyLossReached(cfg, a.strategy)
        THEN Denied(StrategyLossReason(a.strategy[1].name, cfg.maxDailyLossPerStrategy))
        ELSE IF PositionExceeds(cfg, projectedExposure)
        THEN Denied(PositionReason(a.symbol, projectedExposure, cfg.maxPositionSizeUSD))
        ELSE CorrelationCheck(cfg, a, projectedExposure)

validateOrder(cfg, a) ==
    LET orderValue == OrderValue(a.price, a.quantity)
        newQty == NewQty(CurrentQty(a.allPositions, a.symbol), a.side, a.quantity)
        projectedExposure == ProjectedExposure(newQty, a.price)
    IN  IF IsRestricted(cfg, a.symbol)
        THEN Denied(RestrictedReason(a.symbol))
        ELSE IF OrderValueExceeds(cfg, orderValue)
        THEN Denied(OrderValueReason(orderValue, cfg.maxOrderValue))
        ELSE IF GlobalLossReached(cfg, a.globalDailyPnL)
        THEN Denied(GlobalLossReason(cfg.maxGlobalDailyLoss))
        ELSE IF StrategyLossReached(cfg, a.strategy)
        THEN Denied(StrategyLossReason(a.strategy[1].name, cfg.maxDailyLossPerStrategy))
        ELSE IF PositionExceeds(cfg, projectedExposure)
        THEN Denied(PositionReason(a.symbol, projectedExposure, cfg.maxPositionSizeUSD))
        ELSE CorrelationCheck(cfg, a, projectedExposure)

(***************************************************************************)
(* The dashboard (App.tsx) that owns the engine: its constants and the     *)
(* state of the component after its first render.                          *)
(***************************************************************************)
DEFAULT_SYMBOL == "BTCUSDT"

INITIAL_RISK_CONFIG ==
    [ maxPositionSizeUSD |-> 2000000,
      maxDailyLossPerStrategy |-> 50000,
      maxGlobalDailyLoss |-> 100000,
      maxOrderValue |-> 500000,
      restrictedSymbols |-> {"LUNA", "FTT"},
      correlationGroups |->
          << CorrelationGroup("CRYPTO_L1", "L1 Crypto", {"BTCUSDT", "ETHUSDT", "SOLUSDT"}, 3000000),
             CorrelationGroup("STABLE", "Stablecoins", {"USDC", "USDT"}, 5000000) >> ]

\* useState of portfolio: a record keyed by symbol.
InitialPortfolio ==
    [ s \in {"ETHUSDT", DEFAULT_SYMBOL} |->
        IF s = "ETHUSDT" THEN Position("ETHUSDT", 150, 3200, 480000)
        ELSE Position(DEFAULT_SYMBOL, 0, 0, 0) ]

\* An IExchange adapter: the provider of its profile and its status field.
Adapter(providerId, adapterStatus) == [providerId |-> providerId, status |-> adapterStatus]

\* ticks keeps the tail of the tick history that handleOrder reads: the
\* price of the last tick, or nothing.  logs keeps the kind of the last
\* entry written by handleOrder.  abandoned tells that a replaced adapter
\* still has a connect() promise that has not settled.
AppInit ==
    /\ portfolio = InitialPortfolio
    /\ ticks = <<>>
    /\ isConnected = FALSE
    /\ exchange = Adapter("SIMULATION", "DISCONNECTED")
    /\ abandoned = FALSE
    /\ pending = <<>>
    /\ logs = "none"

(***************************************************************************)
(* The state machine.  The arguments of the call under study are drawn at  *)
(* the start; status tells whether result is the verdict of a call made    *)
(* under the configuration the engine holds now.  history is the log of    *)
(* the calls of a session (configuration read, arguments, verdict); given  *)
(* is the configuration last handed to the constructor or to setConfig.    *)
(***************************************************************************)
Init ==
    /\ config \in RiskConfig
    /\ args \in Args
    /\ result = NoResult
    /\ status = "none"
    /\ history = <<>>
    /\ given = config
    /\ AppInit

\* Slip: the engine keeps the last approved order pending and adds its
\* quantity to the next order it evaluates.
CallCountingPending(a) ==
    /\ args' = a
    /\ result' = validateOrder(config,
                     IF result.allowed
                     THEN [a EXCEPT !.quantity = @ + args.quantity]
                     ELSE a)
    /\ status' = "current"
    /\ UNCHANGED <<config, given, appVars>>

\* Slip: maxOrderValue read from a copy cached at the previous call, the
\* other limits from this.config.
CallTornConfig(a) ==
    /\ args' = a
    /\ result' = validateOrder(
                     IF history = <<>> THEN config
                     ELSE [config EXCEPT !.maxOrderValue =
                               history[Len(history)].config.maxOrderValue],
                     a)
    /\ status' = "current"
    /\ UNCHANGED <<config, given, appVars>>

\* One call validateOrder(a...): reads this.config, writes nothing.
Call(a) ==
    /\ args' = a
    /\ result' = validateOrder(config, a)
    /\ status' = "current"
    /\ UNCHANGED <<config, given, appVars>>

\* Slip: the projected quantity written back into the position found.
ValidateOrderWritesPosition ==
    /\ result' = validateOrder(config, args)
    /\ status' = "current"
    /\ args' = [args EXCEPT !.allPositions =
                   [i \in DOMAIN args.allPositions |->
                      IF args.allPositions[i].symbol = args.symbol
                      THEN [args.allPositions[i] EXCEPT !.quantity =
                              NewQty(@, args.side, args.quantity)]
                      ELSE args.allPositions[i]]]
    /\ UNCHANGED <<config, history, given, appVars>>

ValidateOrder ==
    /\ Call(args)
    /\ UNCHANGED history

\* Slip: the new configuration merged into the old one, a restricted symbol
\* staying restricted and the order value limit never lowered.
SetConfigMerging(c) ==
    /\ config' = [c EXCEPT !.restrictedSymbols = @ \cup config.restrictedSymbols,
                           !.maxOrderValue = IF @ < config.maxOrderValue
                                             THEN config.maxOrderValue ELSE @]
    /\ given' = c
    /\ status' = IF status = "none" THEN "none" ELSE "stale"
    /\ UNCHANGED <<args, result, history, appVars>>

\* setConfig(c): this.config = c.
SetConfigTo(c) ==
    /\ config' = c
    /\ given' = c
    /\ status' = IF status = "none" THEN "none" ELSE "stale"
    /\ UNCHANGED <<args, result, history, appVars>>

SetConfig == \E c \in RiskConfig : SetConfigTo(c)

Next == ValidateOrder \/ SetConfig

Spec == Init /\ [][Next]_vars

(***************************************************************************)
(* A session: several calls with varying arguments, interleaved with       *)
(* setConfig, every call logged.                                           *)
(***************************************************************************)
LooseConfig == [TestConfig EXCEPT !.maxOrderValue = 2 * TestMaxOrderValue]

StrictConfig == [TestConfig EXCEPT !.maxPositionSizeUSD = TestMaxOrderValue]

SessionConfigs == {TestConfig, LooseConfig, StrictConfig}

SessionArgs ==
    [ symbol : {"BTC"}, side : Side, price : {TestMaxOrderValue}, quantity : Quantities,
      allPositions : {<<Position("ETH", 40, 2500, 100000)>>},
      strategy : {<<>>}, globalDailyPnL : {0} ]

SessionInit ==
    /\ config \in SessionConfigs
    /\ args \in SessionArgs
    /\ result = NoResult
    /\ status = "none"
    /\ history = <<>>
    /\ given = config
    /\ AppInit

SessionValidateOrder ==
    /\ Len(history) < MaxCalls
    /\ \E a \in SessionArgs :
          /\ Call(a)
          /\ history' = Append(history, [config |-> config, args |-> a, result |-> result'])

SessionSetConfig == \E c \in SessionConfigs : SetConfigTo(c)

SessionNext == SessionValidateOrder \/ SessionSetConfig

SpecSession == SessionInit /\ [][SessionNext]_vars

(***************************************************************************)
(* The dashboard: App.tsx around one RiskManager built from                *)
(* INITIAL_RISK_CONFIG, and the exchange adapters it drives.  Every        *)
(* handler runs to completion; an await ends the step, and what follows it *)
(* is a later step.  Two providers are modelled, the simulator (connect    *)
(* completes at once) and a WebSocket adapter (connect completes when the  *)
(* socket opens).  Ticks are for DEFAULT_SYMBOL.                           *)
(***************************************************************************)
Providers == {"SIMULATION", "BINANCE"}

\* Prices of the ticks delivered, in USD: the simulator's starting price
\* and a price a few ticks of its random walk away.
TickPrices == {64000, 64025}

\* Values typed into the order quantity field.
OrderQuantities == {0, 7}

\* Sum of the strategies' pnl, in whole USD.  A tick moves it by about one
\* USD; it is kept at its initial value.
TotalPnL == 16650

\* Object.values(portfolio), in insertion order.
AllPositions(pf) == <<pf["ETHUSDT"], pf[DEFAULT_SYMBOL]>>

\* ticks.length > 0 ? ticks[ticks.length - 1].price : 0
CurrentPrice(tickHistory) ==
    IF Len(tickHistory) > 0 THEN tickHistory[Len(tickHistory)] ELSE 0

\* The arguments handleOrder passes to validateOrder.
OrderArgs(side, qty, currentPrice, pf) ==
    [ symbol |-> DEFAULT_SYMBOL, side |-> side, price |-> currentPrice, quantity |-> qty,
      allPositions |-> AllPositions(pf), strategy |-> <<>>, globalDailyPnL |-> TotalPnL ]

\* An executeOrder call awaiting its result, with the values handleOrder
\* captured before the await.
PendingOrder(side, qty, currentPrice) ==
    [side |-> side, quantity |-> qty, price |-> currentPrice]

AppSpecInit ==
    /\ config = INITIAL_RISK_CONFIG
    /\ given = config
    /\ args = OrderArgs("BUY", 0, 0, InitialPortfolio)
    /\ result = NoResult
    /\ status = "none"
    /\ history = <<>>
    /\ AppInit

engineVars == <<config, args, result, status, history, given>>

\* The effect of a profile change (and of the mount): cleanup and
\* initExchange up to the await of connect; for the simulator also the
\* continuation, since its connect completes without waiting for any event.
\* A WebSocket adapter replaced while CONNECTING has its socket closed with
\* its connect promise unsettled.
InitExchange(providerId) ==
    /\ abandoned' = (abandoned \/ exchange.status = "CONNECTING")
    /\ IF providerId = "SIMULATION"
       THEN /\ exchange' = Adapter(providerId, "CONNECTED")
            /\ isConnected' = TRUE
       ELSE /\ exchange' = Adapter(providerId, "CONNECTING")
            /\ isConnected' = FALSE
    /\ UNCHANGED <<portfolio, ticks, pending, logs, engineVars>>

SwitchProfile == \E providerId \in Providers : InitExchange(providerId)

\* ws.onopen of the current adapter, then the continuation of initExchange.
SocketOpen ==
    /\ exchange.status = "CONNECTING"
    /\ exchange' = [exchange EXCEPT !.status = "CONNECTED"]
    /\ isConnected' = TRUE
    /\ UNCHANGED <<portfolio, ticks, abandoned, pending, logs, engineVars>>

\* ws.onerror of the current adapter.  While connecting, the rejection
\* reaches the catch of initExchange; after the socket opened, the promise
\* is settled and only the status changes.
SocketError ==
    /\ exchange.providerId = "BINANCE"
    /\ exchange.status \in {"CONNECTING", "CONNECTED"}
    /\ exchange' = [exchange EXCEPT !.status = "ERROR"]
    /\ isConnected' = IF exchange.status = "CONNECTING" THEN FALSE ELSE isConnected
    /\ UNCHANGED <<portfolio, ticks, abandoned, pending, logs, engineVars>>

\* ws.onclose of the current adapter: the server or the network closed the
\* socket, or the close follows an error.
SocketClose ==
    /\ exchange.providerId = "BINANCE"
    /\ exchange.status \in {"CONNECTED", "ERROR"}
    /\ exchange' = [exchange EXCEPT !.status = "DISCONNECTED"]
    /\ UNCHANGED <<portfolio, ticks, isConnected, abandoned, pending, logs, engineVars>>

\* ws.onerror of a replaced adapter whose socket was closed while
\* connecting: its connect promise rejects and the catch of the earlier
\* initExchange runs.
AbandonedConnectFails ==
    /\ abandoned
    /\ abandoned' = FALSE
    /\ isConnected' = FALSE
    /\ UNCHANGED <<portfolio, ticks, exchange, pending, logs, engineVars>>

\* The ticker callback: the tick appended, the position of its symbol
\* marked to market.
Tick(price) ==
    /\ exchange.status = "CONNECTED"
    /\ ticks' = <<price>>
    /\ portfolio' = [portfolio EXCEPT ![DEFAULT_SYMBOL].marketValue =
                         Abs(portfolio[DEFAULT_SYMBOL].quantity * price)]
    /\ UNCHANGED <<isConnected, exchange, abandoned, pending, logs, engineVars>>

TickerCallback == \E price \in TickPrices : Tick(price)

\* Slip: the order sent to the exchange whatever the verdict.
HandleOrderIgnoringVerdict(side, qty) ==
    /\ isConnected
    /\ qty > 0
    /\ Len(pending) < MaxPending
    /\ Abs(portfolio[DEFAULT_SYMBOL].quantity) <= MaxLots
    /\ logs' = "SUBMIT"
    /\ pending' = Append(pending, PendingOrder(side, qty, CurrentPrice(ticks)))
    /\ UNCHANGED <<portfolio, ticks, isConnected, exchange, abandoned, engineVars>>

\* handleOrder(side) up to the await of executeOrder.
HandleOrder(side, qty) ==
    /\ Len(pending) < MaxPending
    /\ Abs(portfolio[DEFAULT_SYMBOL].quantity) <= MaxLots
    /\ IF ~isConnected
       THEN /\ logs' = "Uplink Down"
            /\ UNCHANGED pending
       ELSE IF qty <= 0
       THEN UNCHANGED <<logs, pending>>
       ELSE LET currentPrice == CurrentPrice(ticks)
                riskResult == validateOrder(config,
                                  OrderArgs(side, qty, currentPrice, portfolio))
            IN  IF ~riskResult.allowed
                THEN /\ logs' = "REJECT"
                     /\ UNCHANGED pending
                ELSE /\ logs' = "SUBMIT"
                     /\ pending' = Append(pending, PendingOrder(side, qty, currentPrice))
    /\ UNCHANGED <<portfolio, ticks, isConnected, exchange, abandoned, engineVars>>

PlaceOrder == \E side \in Side : \E qty \in OrderQuantities : HandleOrder(side, qty)

\* The position after a fill of order o, as the setPortfolio updater of
\* handleOrder computes it from the position found at that moment.  The
\* average price of a BUY is a quotient that is fractional and, on a short
\* position, grows without bound; validateOrder and the properties below
\* never read it, and the field is left as found.
Filled(prevPos, o) ==
    LET newQuantity == IF o.side = "BUY" THEN prevPos.quantity + o.quantity
                       ELSE prevPos.quantity - o.quantity
    IN  Position(DEFAULT_SYMBOL, newQuantity, prevPos.averagePrice,
                 Abs(newQuantity * o.price))

\* The continuation of handleOrder after executeOrder resolved.  The
\* timers of the adapter fire in the order the orders were sent.
ExecuteOrderResolves ==
    /\ pending # <<>>
    /\ portfolio' = [portfolio EXCEPT ![DEFAULT_SYMBOL] = Filled(@, Head(pending))]
    /\ pending' = Tail(pending)
    /\ logs' = "EXECUTION"
    /\ UNCHANGED <<ticks, isConnected, exchange, abandoned, engineVars>>

AppNext ==
    \/ SwitchProfile
    \/ SocketOpen
    \/ SocketError
    \/ SocketClose
    \/ AbandonedConnectFails
    \/ TickerCallback
    \/ PlaceOrder
    \/ ExecuteOrderResolves

SpecApp == AppSpecInit /\ [][AppNext]_vars

TypeOK ==
    /\ config \in RiskConfig
    /\ args \in Args
    /\ status \in {"none", "current", "stale"}
    /\ result.allowed \in BOOLEAN

(***************************************************************************)
(* Vocabulary of the properties, stated over the arguments and the         *)
(* configuration of the call whose verdict is in result.                   *)
(***************************************************************************)
Returned == status = "current"

DeniedBy(template) ==
    /\ result.allowed = FALSE
    /\ result.reason.template = template

RestrictedTemplate == "Risk: Symbol is restricted."
OrderValueTemplate == "Risk: Order value exceeds limit."
GlobalLossTemplate == "Risk: Global daily loss limit reached. Trading halted."
StrategyLossTemplate == "Risk: Strategy hit daily loss limit."
PositionTemplate == "Risk: Projected position exceeds limit."
CorrelationTemplate == "Risk: Correlation Limit Breached."

PropOrderValue == args.price * args.quantity

\* Indices of the portfolio positions held in the traded symbol.
PropHeldAt == { i \in DOMAIN args.allPositions : args.allPositions[i].symbol = args.symbol }

PropCurrentQty ==
    IF PropHeldAt = {} THEN 0 ELSE args.allPositions[CHOOSE i \in PropHeldAt : TRUE].quantity

PropNewQty ==
    IF args.side = "BUY" THEN PropCurrentQty + args.quantity
    ELSE PropCurrentQty - args.quantity

PropProjected == Abs(PropNewQty * args.price)

\* Indices of the configured groups that contain the traded symbol.
PropGroupsAt ==
    { i \in DOMAIN config.correlationGroups : args.symbol \in config.correlationGroups[i].symbols }

PropHasGroup == PropGroupsAt # {}

PropGroup ==
    config.correlationGroups[CHOOSE i \in PropGroupsAt : \A j \in PropGroupsAt : i <= j]

RECURSIVE PropSumMarketValue(_)
PropSumMarketValue(indices) ==
    IF indices = {} THEN 0
    ELSE LET i == CHOOSE k \in indices : TRUE
         IN  args.allPositions[i].marketValue + PropSumMarketValue(indices \ {i})

\* Market value of the group's positions other than the traded symbol,
\* plus the projected exposure of the traded symbol.
PropGroupTotal ==
    PropSumMarketValue({ i \in DOMAIN args.allPositions :
                           /\ args.allPositions[i].symbol \in PropGroup.symbols
                           /\ args.allPositions[i].symbol # args.symbol })
    + PropProjected

Fails1 == args.symbol \in config.restrictedSymbols
Fails2 == PropOrderValue > config.maxOrderValue
Fails3 == args.globalDailyPnL <= -config.maxGlobalDailyLoss
Fails4 == args.strategy # <<>> /\ args.strategy[1].pnl <= -config.maxDailyLossPerStrategy
Fails5 == PropProjected > config.maxPositionSizeUSD
Fails6 == PropHasGroup /\ PropGroupTotal > PropGroup.maxExposureUSD

(***************************************************************************)
(* C1: an order in a restricted symbol is denied, whatever the price,      *)
(* quantity, side, portfolio, strategy and global P&L.                     *)
(***************************************************************************)
C1_RestrictedDenied ==
    (Returned /\ args.symbol \in config.restrictedSymbols) => result.allowed = FALSE

\* A restricted order that no other check would stop has been denied.
C1_Witness ==
    /\ Returned
    /\ args.symbol \in config.restrictedSymbols
    /\ ~Fails2 /\ ~Fails3 /\ ~Fails4 /\ ~Fails5 /\ ~Fails6
    /\ result.allowed = FALSE

(***************************************************************************)
(* C2: an allowed order is within every limit: order value, projected      *)
(* exposure, exposure of the first group containing the symbol, global     *)
(* daily loss and, when a strategy is given, the strategy's daily loss.    *)
(***************************************************************************)
C2_AllowedWithinLimits ==
    (Returned /\ result.allowed = TRUE) =>
        /\ args.price * args.quantity <= config.maxOrderValue
        /\ PropProjected <= config.maxPositionSizeUSD
        /\ PropHasGroup => PropGroupTotal <= PropGroup.maxExposureUSD
        /\ args.globalDailyPnL > -config.maxGlobalDailyLoss
        /\ \/ args.strategy = <<>>
           \/ args.strategy[1].pnl > -config.maxDailyLossPerStrategy

\* An allowed order with a strategy, a held position and a group with
\* another member in the portfolio.
C2_Witness ==
    /\ Returned
    /\ result.allowed = TRUE
    /\ args.strategy # <<>>
    /\ PropCurrentQty # 0
    /\ PropHasGroup
    /\ PropGroupTotal > PropProjected

C4_CircuitBreaker ==
    (Returned /\ args.globalDailyPnL <= -config.maxGlobalDailyLoss)
        => result.allowed = FALSE

\* The breaker alone stops an order: loss exactly at the limit, every
\* other check passing.
C4_Witness ==
    /\ Returned
    /\ args.globalDailyPnL = -config.maxGlobalDailyLoss
    /\ ~Fails1 /\ ~Fails2 /\ ~Fails4 /\ ~Fails5 /\ ~Fails6
    /\ DeniedBy(GlobalLossTemplate)

(***************************************************************************)
(* C5: an order value exactly at maxOrderValue is not denied by the order  *)
(* value check, a projected exposure exactly at maxPositionSizeUSD is not  *)
(* denied by the position check, and such an order is allowed when no      *)
(* other check fails.                                                      *)
(***************************************************************************)
C5_BoundaryAllowed ==
    Returned =>
        /\ PropOrderValue = config.maxOrderValue => ~DeniedBy(OrderValueTemplate)
        /\ PropProjected = config.maxPositionSizeUSD => ~DeniedBy(PositionTemplate)
        /\ ( /\ PropOrderValue = config.maxOrderValue
             /\ ~Fails1 /\ ~Fails3 /\ ~Fails4 /\ ~Fails5 /\ ~Fails6 )
               => result.allowed = TRUE
        /\ ( /\ PropProjected = config.maxPositionSizeUSD
             /\ ~Fails1 /\ ~Fails2 /\ ~Fails3 /\ ~Fails4 /\ ~Fails6 )
               => result.allowed = TRUE

\* An order at both boundaries at once has been allowed.
C5_Witness ==
    /\ Returned
    /\ PropOrderValue = config.maxOrderValue
    /\ PropProjected = config.maxPositionSizeUSD
    /\ result.allowed = TRUE

(***************************************************************************)
(* C6 as claimed: for each of the five limits, a compared value exactly    *)
(* equal to the limit is not denied by the check of that limit.            *)
(***************************************************************************)
C6_EveryLimitPassesAtEquality ==
    Returned =>
        /\ PropOrderValue = config.maxOrderValue => ~DeniedBy(OrderValueTemplate)
        /\ args.globalDailyPnL = -config.maxGlobalDailyLoss => ~DeniedBy(GlobalLossTemplate)
        /\ (args.strategy # <<>> /\ args.strategy[1].pnl = -config.maxDailyLossPerStrategy)
               => ~DeniedBy(StrategyLossTemplate)
        /\ PropProjected = config.maxPositionSizeUSD => ~DeniedBy(PositionTemplate)
        /\ (PropHasGroup /\ PropGroupTotal = PropGroup.maxExposureUSD)
               => ~DeniedBy(CorrelationTemplate)

(***************************************************************************)
(* C6 amended: the three exposure limits (maxOrderValue,                   *)
(* maxPositionSizeUSD, group maxExposureUSD) are compared with a strict    *)
(* greater-than, so a value equal to the limit is not denied by that       *)
(* check; the two loss limits are inclusive, so a global P&L equal to      *)
(* -maxGlobalDailyLoss, or a strategy P&L equal to                         *)
(* -maxDailyLossPerStrategy, is denied by that check when the checks       *)
(* before it pass.                                                         *)
(***************************************************************************)
C6_ExposureLimitsStrictLossLimitsInclusive ==
    Returned =>
        /\ PropOrderValue = config.maxOrderValue => ~DeniedBy(OrderValueTemplate)
        /\ PropProjected = config.maxPositionSizeUSD => ~DeniedBy(PositionTemplate)
        /\ (PropHasGroup /\ PropGroupTotal = PropGroup.maxExposureUSD)
               => ~DeniedBy(CorrelationTemplate)
        /\ (args.globalDailyPnL = -config.maxGlobalDailyLoss /\ ~Fails1 /\ ~Fails2)
               => DeniedBy(GlobalLossTemplate)
        /\ ( /\ args.strategy # <<>>
             /\ args.strategy[1].pnl = -config.maxDailyLossPerStrategy
             /\ ~Fails1 /\ ~Fails2 /\ ~Fails3 )
               => DeniedBy(StrategyLossTemplate)

\* An order at the group limit and at the order value limit, with the
\* strategy's loss exactly at its limit, denied for the strategy's loss.
C6_Witness ==
    /\ Returned
    /\ PropOrderValue = config.maxOrderValue
    /\ PropHasGroup /\ PropGroupTotal = PropGroup.maxExposureUSD
    /\ args.strategy # <<>>
    /\ args.strategy[1].pnl = -config.maxDailyLossPerStrategy
    /\ DeniedBy(StrategyLossTemplate)

C8_ProjectedExposureCheck ==
    (Returned /\ ~Fails1 /\ ~Fails2 /\ ~Fails3 /\ ~Fails4) =>
        ( result = [allowed |-> FALSE,
                    reason |-> [template |-> PositionTemplate,
                                symbol |-> args.symbol,
                                value |-> PropProjected,
                                limit |-> config.maxPositionSizeUSD]]
          <=> PropProjected > config.maxPositionSizeUSD )

\* A SELL that extends a short position beyond the limit has been denied.
C8_Witness ==
    /\ Returned
    /\ ~Fails1 /\ ~Fails2 /\ ~Fails3 /\ ~Fails4
    /\ args.side = "SELL"
    /\ PropCurrentQty < 0
    /\ PropProjected > config.maxPositionSizeUSD
    /\ DeniedBy(PositionTemplate)

(***************************************************************************)
(* C9: when checks 1-5 pass and the symbol is in a group, the order is     *)
(* denied with the correlation reason (group name, total, limit) exactly   *)
(* when the market value of the group's other positions plus the projected *)
(* exposure of the traded symbol exceeds the group's maxExposureUSD.       *)
(***************************************************************************)
C9_CorrelationCheck ==
    (Returned /\ ~Fails1 /\ ~Fails2 /\ ~Fails3 /\ ~Fails4 /\ ~Fails5 /\ PropHasGroup) =>
        ( result = [allowed |-> FALSE,
                    reason |-> [template |-> CorrelationTemplate,
                                group |-> PropGroup.name,
                                value |-> PropGroupTotal,
                                limit |-> PropGroup.maxExposureUSD]]
          <=> PropGroupTotal > PropGroup.maxExposureUSD )

\* An order that adds to a held position, with another member of the group
\* in the portfolio, denied for the group's exposure.
C9_Witness ==
    /\ Returned
    /\ ~Fails1 /\ ~Fails2 /\ ~Fails3 /\ ~Fails4 /\ ~Fails5
    /\ PropHasGroup
    /\ PropCurrentQty # 0
    /\ PropGroupTotal > PropProjected
    /\ PropGroupTotal > PropGroup.maxExposureUSD
    /\ DeniedBy(CorrelationTemplate)

(***************************************************************************)
(* C10: Scenario E.  Under the configuration of runRiskTests with the      *)
(* group limit raised to 200000, a portfolio holding only ETH with market  *)
(* value 100000, no strategy and global P&L 0, BUY BTC 1 @ 60000 is        *)
(* allowed, with no reason.                                                *)
(***************************************************************************)
ScenarioEConfig == [TestConfig EXCEPT !.correlationGroups = <<CryptoGroup(200000)>>]

ScenarioEArgs ==
    [ symbol |-> "BTC", side |-> "BUY", price |-> 60000, quantity |-> 1,
      allPositions |-> <<Position("ETH", 40, 2500, 100000)>>,
      strategy |-> <<>>, globalDailyPnL |-> 0 ]

C10_ScenarioEAllowed ==
    (Returned /\ config = ScenarioEConfig /\ args = ScenarioEArgs) => result = Allowed

(***************************************************************************)
(* C11: the verdict does not depend on the stored averagePrice and         *)
(* marketValue of the position in the traded symbol: a call that differs   *)
(* only in these two fields returns the same allowed flag and reason.      *)
(***************************************************************************)
StoredAveragePrices == {0, 2500, 60000}

StoredMarketValues == {0, 90000, 480000}

\* The arguments a with the traded symbol's position revalued.
Revalued(a, averagePrice, marketValue) ==
    [a EXCEPT !.allPositions =
        [i \in DOMAIN a.allPositions |->
            IF a.allPositions[i].symbol = a.symbol
            THEN [a.allPositions[i] EXCEPT !.averagePrice = averagePrice,
                                           !.marketValue = marketValue]
            ELSE a.allPositions[i]]]

C11_StoredValuationIrrelevant ==
    Returned =>
        \A ap \in StoredAveragePrices, mv \in StoredMarketValues :
            validateOrder(config, Revalued(args, ap, mv)) = result

\* A group denial for an order that adds to a held position whose stored
\* market value is not its value at the order price.
C11_Witness ==
    /\ Returned
    /\ PropHeldAt # {}
    /\ PropCurrentQty # 0
    /\ \E i \in PropHeldAt :
          args.allPositions[i].marketValue # Abs(PropCurrentQty * args.price)
    /\ ~Fails1 /\ ~Fails2 /\ ~Fails3 /\ ~Fails4 /\ ~Fails5
    /\ DeniedBy(CorrelationTemplate)

(***************************************************************************)
(* C12: with a strategy whose pnl <= -maxDailyLossPerStrategy the order is *)
(* denied, and when checks 1-3 pass the reason is the strategy loss reason *)
(* naming that strategy.                                                   *)
(***************************************************************************)
\* Strategies at and beyond the loss limit of the configuration in force.
LosingStrategies ==
    { Strategy("Momentum_Alpha", -config.maxDailyLossPerStrategy),
      Strategy("Arb_Tri_05", -2 * config.maxDailyLossPerStrategy) }

StrategyLossDenial(strategy) ==
    [allowed |-> FALSE,
     reason |-> [template |-> StrategyLossTemplate,
                 strategy |-> strategy.name,
                 limit |-> config.maxDailyLossPerStrategy]]

C12_StrategyLossDenied ==
    /\ (Returned /\ args.strategy # <<>>
                 /\ args.strategy[1].pnl <= -config.maxDailyLossPerStrategy)
          => /\ result.allowed = FALSE
             /\ (~Fails1 /\ ~Fails2 /\ ~Fails3) => result = StrategyLossDenial(args.strategy[1])
    /\ Returned =>
          \A s \in LosingStrategies :
              LET verdict == validateOrder(config, [args EXCEPT !.strategy = <<s>>])
              IN  /\ verdict.allowed = FALSE
                  /\ (~Fails1 /\ ~Fails2 /\ ~Fails3) => verdict = StrategyLossDenial(s)

\* The strategy's loss alone stops an order that passes every other check.
C12_Witness ==
    /\ Returned
    /\ args.strategy # <<>>
    /\ args.strategy[1].pnl <= -config.maxDailyLossPerStrategy
    /\ ~Fails1 /\ ~Fails2 /\ ~Fails3 /\ ~Fails5 /\ ~Fails6
    /\ DeniedBy(StrategyLossTemplate)
    /\ result.reason.strategy = "Momentum_Alpha"

(***************************************************************************)
(* C13: without a strategy only check 4 is off: the verdict is the same    *)
(* for every maxDailyLossPerStrategy, the same as with any strategy whose  *)
(* pnl > -maxDailyLossPerStrategy, and checks 1, 2, 3, 5 and 6 decide it.  *)
(***************************************************************************)
StrategyLossLimits == {0, TestMaxDailyLossPerStrategy, 2 * TestMaxDailyLossPerStrategy}

HealthyStrategies ==
    { s \in { Strategy("MarketMaker_L1", 100), Strategy("Arb_Tri_05", 0),
              Strategy("Momentum_Alpha", 1 - TestMaxDailyLossPerStrategy) } :
        s.pnl > -config.maxDailyLossPerStrategy }

C13_AbsentStrategyDisablesOnlyCheck4 ==
    (Returned /\ args.strategy = <<>>) =>
        /\ \A m \in StrategyLossLimits :
              validateOrder([config EXCEPT !.maxDailyLossPerStrategy = m], args) = result
        /\ \A s \in HealthyStrategies :
              validateOrder(config, [args EXCEPT !.strategy = <<s>>]) = result
        /\ result.allowed = ~(Fails1 \/ Fails2 \/ Fails3 \/ Fails5 \/ Fails6)

\* An order without a strategy stopped by the group check, the last one.
C13_Witness ==
    /\ Returned
    /\ args.strategy = <<>>
    /\ ~Fails1 /\ ~Fails2 /\ ~Fails3 /\ ~Fails5 /\ Fails6
    /\ DeniedBy(CorrelationTemplate)

(***************************************************************************)
(* C14: validateOrder has no side effects: across every call, allowing or  *)
(* denying, the configuration and the portfolio passed in (the list and    *)
(* every Position in it) are left as they were.                            *)
(***************************************************************************)
C14_NoSideEffects ==
    [][status' = "current" => (config' = config /\ args' = args)]_vars

\* A call that approved an order adding to a position it found in the
\* portfolio.
C14_Witness ==
    /\ Returned
    /\ result.allowed = TRUE
    /\ PropHeldAt # {}
    /\ PropNewQty # PropCurrentQty

SixTemplates ==
    { RestrictedTemplate, OrderValueTemplate, GlobalLossTemplate,
      StrategyLossTemplate, PositionTemplate, CorrelationTemplate }

AllSixPass == ~(Fails1 \/ Fails2 \/ Fails3 \/ Fails4 \/ Fails5 \/ Fails6)

C16_ResultWellFormed ==
    Returned =>
        \/ /\ AllSixPass
           /\ DOMAIN result = {"allowed"}
           /\ result.allowed = TRUE
        \/ /\ ~AllSixPass
           /\ DOMAIN result = {"allowed", "reason"}
           /\ result.allowed = FALSE
           /\ result.reason.template \in SixTemplates

\* An approval without a reason for an order that passes all six checks
\* with a strategy, a held position and a group.
C16_Witness ==
    /\ Returned
    /\ AllSixPass
    /\ args.strategy # <<>>
    /\ PropHeldAt # {}
    /\ PropHasGroup
    /\ DOMAIN result = {"allowed"}

(***************************************************************************)
(* C17 as claimed: every denial carries a reason that identifies the check *)
(* and includes both the computed value compared and the limit.            *)
(***************************************************************************)
C17_EveryDenialCarriesValueAndLimit ==
    (Returned /\ result.allowed = FALSE) =>
        /\ result.reason.template \in SixTemplates
        /\ {"value", "limit"} \subseteq DOMAIN result.reason

(***************************************************************************)
(* C17 amended: every denial carries a reason that identifies the check.   *)
(* The reasons of checks 2, 5 and 6 include the computed value and the     *)
(* limit (5 also the symbol, 6 the group name); the reason of check 1      *)
(* names only the symbol; the reasons of checks 3 and 4 include the limit  *)
(* (4 also the strategy name) but not the P&L that was compared.           *)
(***************************************************************************)
C17_DenialReasonContents ==
    (Returned /\ result.allowed = FALSE) =>
        /\ result.reason.template \in SixTemplates
        /\ DeniedBy(RestrictedTemplate) =>
              result.reason = [template |-> RestrictedTemplate, symbol |-> args.symbol]
        /\ DeniedBy(OrderValueTemplate) =>
              result.reason = [template |-> OrderValueTemplate,
                               value |-> args.price * args.quantity,
                               limit |-> config.maxOrderValue]
        /\ DeniedBy(GlobalLossTemplate) =>
              result.reason = [template |-> GlobalLossTemplate,
                               limit |-> config.maxGlobalDailyLoss]
        /\ DeniedBy(StrategyLossTemplate) =>
              result.reason = [template |-> StrategyLossTemplate,
                               strategy |-> args.strategy[1].name,
                               limit |-> config.maxDailyLossPerStrategy]
        /\ DeniedBy(PositionTemplate) =>
              result.reason = [template |-> PositionTemplate,
                               symbol |-> args.symbol,
                               value |-> PropProjected,
                               limit |-> config.maxPositionSizeUSD]
        /\ DeniedBy(CorrelationTemplate) =>
              result.reason = [template |-> CorrelationTemplate,
                               group |-> PropGroup.name,
                               value |-> PropGroupTotal,
                               limit |-> PropGroup.maxExposureUSD]

\* A halt for a global loss beyond the limit: the reason gives the limit
\* and not the loss.
C17_Witness ==
    /\ Returned
    /\ DeniedBy(GlobalLossTemplate)
    /\ args.globalDailyPnL < -config.maxGlobalDailyLoss
    /\ DOMAIN result.reason = {"template", "limit"}
    /\ result.reason.limit = config.maxGlobalDailyLoss

(***************************************************************************)
(* C18: for every well-typed input, an empty portfolio, a symbol without   *)
(* position or group and an absent strategy included, the call returns a   *)
(* RiskCheckResult; it never throws.                                       *)
(***************************************************************************)
C18_ReturnsResultNeverThrows ==
    Returned =>
        /\ "thrown" \notin DOMAIN result
        /\ "allowed" \in DOMAIN result
        /\ DOMAIN result \subseteq {"allowed", "reason"}
        /\ result.allowed \in BOOLEAN

\* A verdict for an order with an empty portfolio, no group for the symbol
\* and no strategy, after the checks before the strategy check passed.
C18_Witness ==
    /\ Returned
    /\ args.allPositions = <<>>
    /\ args.strategy = <<>>
    /\ ~PropHasGroup
    /\ ~Fails1 /\ ~Fails2 /\ ~Fails3
    /\ result.allowed = TRUE

(***************************************************************************)
(* C19: when no group contains the order's symbol the group check is       *)
(* skipped: checks 1-5 decide the verdict, which is the same whatever      *)
(* groups of other symbols are configured, whatever their maxExposureUSD,  *)
(* and whatever the marketValue of the other positions.                    *)
(***************************************************************************)
\* A group of every symbol but the traded one.
OthersGroup(limit) ==
    CorrelationGroup("OTHERS", "Others", {"BTC", "ETH", "SOL", "SCAM"} \ {args.symbol}, limit)

ForeignGroupLists ==
    { <<OthersGroup(0)>>, <<OthersGroup(TestMaxExposureUSD)>>,
      <<OthersGroup(0), OthersGroup(TestMaxExposureUSD)>> }

\* The arguments a with every position but the traded symbol's revalued.
OthersRevalued(a, marketValue) ==
    [a EXCEPT !.allPositions =
        [i \in DOMAIN a.allPositions |->
            IF a.allPositions[i].symbol # a.symbol
            THEN [a.allPositions[i] EXCEPT !.marketValue = marketValue]
            ELSE a.allPositions[i]]]

C19_NoGroupSkipsCheck6 ==
    (Returned /\ ~PropHasGroup) =>
        /\ result.allowed = ~(Fails1 \/ Fails2 \/ Fails3 \/ Fails4 \/ Fails5)
        /\ \A groups \in ForeignGroupLists, mv \in StoredMarketValues :
              validateOrder([config EXCEPT !.correlationGroups = groups],
                            OthersRevalued(args, mv)) = result

\* An approval for a symbol in no group while another position is held.
C19_Witness ==
    /\ Returned
    /\ ~PropHasGroup
    /\ \E i \in DOMAIN args.allPositions :
          /\ args.allPositions[i].symbol # args.symbol
          /\ args.allPositions[i].marketValue > 0
    /\ result.allowed = TRUE

(***************************************************************************)
(* C20: when several groups contain the symbol only the first in list      *)
(* order is used, for the sum and for the limit; the limit of a later      *)
(* group never causes a denial.                                            *)
(***************************************************************************)
\* Exposure of group g as check 6 would compute it.
PropTotalIn(g) ==
    PropSumMarketValue({ i \in DOMAIN args.allPositions :
                           /\ args.allPositions[i].symbol \in g.symbols
                           /\ args.allPositions[i].symbol # args.symbol })
    + PropProjected

PropFirstGroupAt == CHOOSE i \in PropGroupsAt : \A j \in PropGroupsAt : i <= j

\* The configured groups with the limit of every group at index in
\* indices set to limit.
GroupsRelimited(indices, limit) ==
    [i \in DOMAIN config.correlationGroups |->
        IF i \in indices
        THEN [config.correlationGroups[i] EXCEPT !.maxExposureUSD = limit]
        ELSE config.correlationGroups[i]]

C20_FirstMatchWins ==
    (Returned /\ Cardinality(PropGroupsAt) >= 2) =>
        LET first == config.correlationGroups[PropFirstGroupAt]
            later == PropGroupsAt \ {PropFirstGroupAt}
            passes1to5 == ~(Fails1 \/ Fails2 \/ Fails3 \/ Fails4 \/ Fails5)
        IN  /\ (passes1to5 /\ PropTotalIn(first) <= first.maxExposureUSD)
                  => result.allowed = TRUE
            /\ DeniedBy(CorrelationTemplate) =>
                  /\ result.reason.group = first.name
                  /\ result.reason.value = PropTotalIn(first)
                  /\ result.reason.limit = first.maxExposureUSD
            /\ validateOrder([config EXCEPT !.correlationGroups = GroupsRelimited(later, 0)],
                             args) = result
            /\ (passes1to5 /\ PropTotalIn(first) > 0) =>
                  validateOrder([config EXCEPT !.correlationGroups =
                                     GroupsRelimited({PropFirstGroupAt}, 0)], args)
                  = [allowed |-> FALSE,
                     reason |-> [template |-> CorrelationTemplate,
                                 group |-> first.name,
                                 value |-> PropTotalIn(first),
                                 limit |-> 0]]

\* An approval although a later group holding the symbol is over its limit.
C20_Witness ==
    /\ Returned
    /\ Cardinality(PropGroupsAt) >= 2
    /\ \E j \in PropGroupsAt \ {PropFirstGroupAt} :
          PropTotalIn(config.correlationGroups[j]) > config.correlationGroups[j].maxExposureUSD
    /\ result.allowed = TRUE

(***************************************************************************)
(* The verdict the six ordered checks give for arguments a when every one  *)
(* of them reads configuration c: the allowed flag and the template of the *)
(* first failing check.                                                    *)
(***************************************************************************)
RECURSIVE SumMarketValue(_, _)
SumMarketValue(positions, indices) ==
    IF indices = {} THEN 0
    ELSE LET i == CHOOSE k \in indices : TRUE
         IN  positions[i].marketValue + SumMarketValue(positions, indices \ {i})

ExpectedVerdict(c, a) ==
    LET held == { i \in DOMAIN a.allPositions : a.allPositions[i].symbol = a.symbol }
        currentQty == IF held = {} THEN 0
                      ELSE a.allPositions[CHOOSE i \in held : \A j \in held : i <= j].quantity
        newQty == IF a.side = "BUY" THEN currentQty + a.quantity ELSE currentQty - a.quantity
        projected == Abs(newQty * a.price)
        groupsAt == { i \in DOMAIN c.correlationGroups : a.symbol \in c.correlationGroups[i].symbols }
        group == c.correlationGroups[CHOOSE i \in groupsAt : \A j \in groupsAt : i <= j]
        total == SumMarketValue(a.allPositions,
                                { i \in DOMAIN a.allPositions :
                                    /\ a.allPositions[i].symbol \in group.symbols
                                    /\ a.allPositions[i].symbol # a.symbol })
                 + projected
    IN  CASE a.symbol \in c.restrictedSymbols
               -> [allowed |-> FALSE, template |-> RestrictedTemplate]
          [] a.price * a.quantity > c.maxOrderValue
               -> [allowed |-> FALSE, template |-> OrderValueTemplate]
          [] a.globalDailyPnL <= -c.maxGlobalDailyLoss
               -> [allowed |-> FALSE, template |-> GlobalLossTemplate]
          [] a.strategy # <<>> /\ a.strategy[1].pnl <= -c.maxDailyLossPerStrategy
               -> [allowed |-> FALSE, template |-> StrategyLossTemplate]
          [] projected > c.maxPositionSizeUSD
               -> [allowed |-> FALSE, template |-> PositionTemplate]
          [] groupsAt # {} /\ total > group.maxExposureUSD
               -> [allowed |-> FALSE, template |-> CorrelationTemplate]
          [] OTHER -> [allowed |-> TRUE, template |-> "none"]

\* Verdict r is a denial built from template.
DeniedWith(r, template) ==
    /\ r.allowed = FALSE
    /\ r.reason.template = template

\* Verdict r is the verdict of the six checks all reading c.
DecidedBy(r, c, a) ==
    LET v == ExpectedVerdict(c, a)
    IN  /\ r.allowed = v.allowed
        /\ ~v.allowed => r.reason.template = v.template

(***************************************************************************)
(* C21: the configuration is replaced in full.  The engine holds the       *)
(* configuration last given to the constructor or to setConfig, getConfig  *)
(* returns it, and a verdict is decided by that configuration alone, with  *)
(* no influence of an earlier one.                                         *)
(***************************************************************************)
C21_ConfigReplacedInFull ==
    /\ config = given
    /\ Returned => DecidedBy(result, given, args)
    /\ \A i \in DOMAIN history :
          (history[i].config = given /\ history[i].args = args /\ Returned)
             => history[i].result = result

\* The same order decided differently before and after a setConfig.
C21_Witness ==
    /\ Len(history) >= 2
    /\ history[1].config # history[2].config
    /\ history[1].args = history[2].args
    /\ DeniedWith(history[1].result, OrderValueTemplate)
    /\ DeniedWith(history[2].result, CorrelationTemplate)
    /\ history[2].config = given
    /\ Returned

(***************************************************************************)
(* C22: however setConfig and validateOrder calls interleave, every        *)
(* verdict is the one the six checks give when all of them read one and    *)
(* the same configuration, the one held when the call was made; none comes *)
(* from a mix of the fields of two configurations.                         *)
(***************************************************************************)
C22_NoTornConfiguration ==
    \A i \in DOMAIN history :
       /\ \E c \in SessionConfigs : DecidedBy(history[i].result, c, history[i].args)
       /\ DecidedBy(history[i].result, history[i].config, history[i].args)

\* Three calls with the same arguments under three configurations, a
\* setConfig between each two, each decided by its own configuration.
C22_Witness ==
    /\ Len(history) >= 3
    /\ history[1].args = history[2].args
    /\ history[2].args = history[3].args
    /\ history[1].config = StrictConfig
    /\ history[2].config = LooseConfig
    /\ history[3].config = TestConfig
    /\ DeniedWith(history[1].result, OrderValueTemplate)
    /\ DeniedWith(history[2].result, CorrelationTemplate)
    /\ DeniedWith(history[3].result, OrderValueTemplate)

(***************************************************************************)
(* C23: in the dashboard's order path the quantity held changes only when  *)
(* executeOrder resolved for an order that validateOrder had allowed; an   *)
(* order is sent to the exchange only with an allowed verdict, and a       *)
(* rejected order changes neither the portfolio nor what is sent.          *)
(***************************************************************************)
C23_PortfolioChangesOnlyByApprovedFill ==
    [][ /\ (portfolio'[DEFAULT_SYMBOL].quantity # portfolio[DEFAULT_SYMBOL].quantity)
              => /\ pending # <<>>
                 /\ pending' = Tail(pending)
                 /\ portfolio'[DEFAULT_SYMBOL].quantity =
                        IF Head(pending).side = "BUY"
                        THEN portfolio[DEFAULT_SYMBOL].quantity + Head(pending).quantity
                        ELSE portfolio[DEFAULT_SYMBOL].quantity - Head(pending).quantity
        /\ (Len(pending') > Len(pending))
              => /\ Len(pending') = Len(pending) + 1
                 /\ SubSeq(pending', 1, Len(pending)) = pending
                 /\ LET o == pending'[Len(pending')]
                    IN  ExpectedVerdict(config,
                            OrderArgs(o.side, o.quantity, o.price, portfolio)).allowed
                 /\ portfolio' = portfolio
        /\ (logs' = "REJECT" /\ logs # "REJECT")
              => /\ portfolio' = portfolio
                 /\ pending' = pending
      ]_vars

\* One order has been filled, one is awaiting execution and the last one
\* was rejected by the risk engine.
C23_Witness ==
    /\ portfolio[DEFAULT_SYMBOL].quantity # 0
    /\ pending # <<>>
    /\ logs = "REJECT"

(***************************************************************************)
(* C24: in every state of the dashboard each position's marketValue is     *)
(* non-negative, and once a tick has been received for its symbol it is    *)
(* |quantity x price of the last tick|.                                    *)
(***************************************************************************)
C24_MarketValueMarkedToLastTick ==
    /\ \A s \in DOMAIN portfolio : portfolio[s].marketValue >= 0
    /\ ticks # <<>> =>
          portfolio[DEFAULT_SYMBOL].marketValue =
              Abs(portfolio[DEFAULT_SYMBOL].quantity * CurrentPrice(ticks))

(***************************************************************************)
(* C25: every fill leaves the traded position with |new quantity x order   *)
(* price| at most maxPositionSizeUSD, the projected exposure approved for  *)
(* the order, however orders and ticks interleave.                         *)
(***************************************************************************)
C25_FillWithinApprovedExposure ==
    [][ (pending # <<>> /\ pending' = Tail(pending))
           => Abs(portfolio'[DEFAULT_SYMBOL].quantity * Head(pending).price)
                 <= config.maxPositionSizeUSD
      ]_vars

(***************************************************************************)
(* C26: every order handleOrder validates and sends has a quantity above 0 *)
(* and a price above 0; none is sent at price 0 before the first tick.     *)
(***************************************************************************)
C26_OnlySaneValuesPassed ==
    \A i \in DOMAIN pending :
       /\ pending[i].quantity > 0
       /\ pending[i].price > 0

(***************************************************************************)
(* C27: isConnected is true exactly when the adapter held in exchangeRef   *)
(* has status CONNECTED.                                                   *)
(***************************************************************************)
C27_IsConnectedMatchesAdapter ==
    isConnected <=> (exchange.status = "CONNECTED")

(***************************************************************************)
(* C28: loosening the configuration never turns an approval into a denial. *)
(* An order allowed under the configuration held is allowed, with the same *)
(* portfolio, strategy and global P&L, under every configuration obtained  *)
(* by raising numeric limits and/or removing restricted symbols, the       *)
(* groups' symbols and order unchanged.                                    *)
(***************************************************************************)
\* A limit as it is, or raised.
Raised(limit) == {limit, limit + TestMaxOrderValue}

\* The group lists obtained from groups by raising limits of its groups.
RaisedGroups(groups) ==
    { [i \in DOMAIN groups |->
         [groups[i] EXCEPT !.maxExposureUSD = IF i \in raised THEN @ + TestMaxOrderValue ELSE @]]
      : raised \in SUBSET DOMAIN groups }

Loosened(c) ==
    { [ maxPositionSizeUSD |-> p, maxDailyLossPerStrategy |-> s, maxGlobalDailyLoss |-> g,
        maxOrderValue |-> o, restrictedSymbols |-> r, correlationGroups |-> cg ]
      : p \in Raised(c.maxPositionSizeUSD), s \in Raised(c.maxDailyLossPerStrategy),
        g \in Raised(c.maxGlobalDailyLoss), o \in Raised(c.maxOrderValue),
        r \in SUBSET c.restrictedSymbols, cg \in RaisedGroups(c.correlationGroups) }

C28_LooseningKeepsApproval ==
    (Returned /\ result.allowed) =>
        \A c \in Loosened(config) : validateOrder(c, args).allowed

\* An approval at the limits: the order value equals maxOrderValue and the
\* projected exposure equals maxPositionSizeUSD.
C28_Witness ==
    /\ Returned
    /\ result.allowed
    /\ PropOrderValue = config.maxOrderValue
    /\ PropProjected = config.maxPositionSizeUSD

(***************************************************************************)
(* C29: long/short symmetry from flat.  When the traded symbol's position  *)
(* is absent or has quantity 0, a BUY and a SELL with the same price,      *)
(* quantity, configuration, portfolio, strategy and global P&L receive the *)
(* same allowed flag and the same reason.                                  *)
(***************************************************************************)
OtherSide(side) == IF side = "BUY" THEN "SELL" ELSE "BUY"

C29_LongShortSymmetryFromFlat ==
    (Returned /\ PropCurrentQty = 0) =>
        validateOrder(config, [args EXCEPT !.side = OtherSide(@)]) = result

\* A SELL from a position of quantity 0 denied by the group check.
C29_Witness ==
    /\ Returned
    /\ PropHeldAt # {}
    /\ PropCurrentQty = 0
    /\ args.side = "SELL"
    /\ DeniedBy(CorrelationTemplate)

(***************************************************************************)
(* C30: an order that strictly reduces the absolute quantity of the traded *)
(* position is never denied by check 5 nor by check 6.                     *)
(***************************************************************************)
PropReducing == Abs(PropNewQty) < Abs(PropCurrentQty)

====
